---- MODULE Spec2Model ----
(***************************************************************************)
(* A model of theclaude: the conversation-log scanner (scanner.py), the    *)
(* data model (models.py) and the file recovery engine (recovery.py).      *)
(*                                                                         *)
(* Four specifications share the variables below:                          *)
(*   Spec         the recovery engine: preview_recovery and recover_files  *)
(*                over a small filesystem;                                 *)
(*   SpecScan     the generator _scan_conversation_for_files over one log, *)
(*                one line per step;                                       *)
(*   SpecProject  scan_project_for_files / get_project_summary over the    *)
(*                logs of one project, one conversation file per step;     *)
(*   SpecModels   the property FileRecord.relative_path read on one record.*)
(***************************************************************************)
EXTENDS Integers, Sequences, FiniteSets, TLC

VARIABLES
    \* ---- the machine both halves of the program run on
    clock,              \* the wall clock read by datetime.now()
    \* ---- _scan_conversation_for_files (one generator over one log)
    scan_lines,         \* the lines of the log file being read
    scan_pos,           \* number of lines consumed by "for line in f"
    scan_yielded,       \* the records yielded so far
    scan_trace,         \* per consumed line: the records that line yielded
    scan_state,         \* "running" | "exhausted" | "raised"
    \* ---- scan_project_for_files / get_project_summary
    logs,               \* the project's *.jsonl files, each a sequence of lines
    proj_pc,            \* "idle" | "scanning" | "returned" | "raised"
    conv_idx,           \* conversation files consumed by "for conv_file in ..."
    all_files,          \* the list all_files of scan_project_for_files
    scan_runs,          \* what each finished call of scan_project_for_files gave
    summary,            \* what get_project_summary last returned, or NoValue
    totals,             \* get_project_summary's file_count, total_size,
                        \* latest_activity and file_types
    sum_trace,          \* per conversation file of get_project_summary: the
                        \* list files and the exception of the try block
    \* ---- FileRecord.relative_path
    display_record,     \* the record whose property is read, or NoValue
    relative_path,      \* the value of the property, or NoValue
    \* ---- FileRecovery
    create_backups,     \* FileRecovery.create_backups
    fs,                 \* the filesystem: [files, dirs]
    fs_start,           \* the filesystem as it was before the first call
    file_records,       \* argument of preview_recovery / recover_files
    target_dir,         \* argument: a directory path, or NoValue
    preserve_structure, \* argument
    force,              \* argument
    rec_pc,             \* "idle" | "previewed" | "recovering" | "returned"
    results,            \* the list results of recover_files
    io_log,             \* every call that changes the filesystem, in order
    confirm_log,        \* the target of every Confirm.ask made so far
    preview             \* the lines preview_recovery printed

scanVars == <<scan_lines, scan_pos, scan_yielded, scan_trace, scan_state>>
projVars == <<logs, proj_pc, conv_idx, all_files, scan_runs, summary, totals, sum_trace>>
modelVars == <<display_record, relative_path>>
recVars  == <<create_backups, fs, fs_start, file_records, target_dir, preserve_structure,
              force, rec_pc, results, io_log, confirm_log, preview>>
vars     == <<clock, scanVars, projVars, recVars, modelVars>>

NoValue == [t |-> "none"]

\* ------------------------------------------------------------------ bounds
MaxLines  == 2      \* lines in the log of SpecScan
MaxTicks  == 1      \* times the wall clock advances during a run
MaxLogLines == 3    \* lines in all the logs of the project of SpecProject
MaxRuns   == 2      \* calls of scan_project_for_files in one behaviour
MaxEvents == 2      \* records handed to preview_recovery / recover_files
MaxDirs   == 3      \* directories above the file of a displayed path

(***************************************************************************)
(* JSON values, as json.loads builds them.  Python strings come in four    *)
(* kinds that the model keeps apart by what the program does with them:    *)
(* plain words ("str"), file contents ("text", a sequence of characters),  *)
(* ISO timestamps ("isostr") and file paths ("pathstr").                   *)
(***************************************************************************)
JNull         == [t |-> "null"]
JNum          == [t |-> "num"]
JStr(s)       == [t |-> "str", s |-> s]
JText(chars)  == [t |-> "text", chars |-> chars]
JIso(n, off)  == [t |-> "isostr", time |-> n, off |-> off]
JPath(raw)    == [t |-> "pathstr", raw |-> raw]
JList(items)  == [t |-> "list", items |-> items]
JObj(f)       == [t |-> "obj", f |-> f]
EmptyDict     == JObj(<<>>)
\* A line that json.loads rejects (truncated, not JSON at all).
BadJson       == [t |-> "badjson"]

IsDict(v) == v.t = "obj"
IsList(v) == v.t = "list"
IsStr(v)  == v.t \in {"str", "text", "isostr", "pathstr"}

\* dict.get(key, default), for v a dict.
DictGet(v, key, default) == IF key \in DOMAIN v.f THEN v.f[key] ELSE default

\* "key in v": membership for a dict, substring for a str (the modelled words
\* are atoms, so a word contains only itself), element test for a list, and
\* TypeError for a value that is not iterable.
PyIn(key, v) ==
    CASE v.t = "obj"  -> IF key \in DOMAIN v.f THEN "true" ELSE "false"
      [] v.t = "list" -> IF \E i \in 1..Len(v.items) : v.items[i] = JStr(key)
                         THEN "true" ELSE "false"
      [] v.t = "str"  -> IF v.s = key THEN "true" ELSE "false"
      [] v.t \in {"text", "isostr", "pathstr"} -> "false"
      [] OTHER        -> "TypeError"

\* v[key] for a str key: the value for a dict holding it, KeyError for a dict
\* without it, TypeError for anything else.
PyIndexExc(v, key) ==
    IF IsDict(v) THEN (IF key \in DOMAIN v.f THEN "none" ELSE "KeyError")
    ELSE "TypeError"

\* ------------------------------------------------------------ text encoding
Surrogate == "\\ud800"
\* Bytes of one character under UTF-8.
Utf8Width(ch) ==
    CASE ch = "a"  -> 1
      [] ch = "e'" -> 2      \* U+00E9
      [] ch = "EUR" -> 3     \* U+20AC
      [] ch = Surrogate -> 0 \* not encodable

RECURSIVE Utf8Len(_)
Utf8Len(chars) ==
    IF chars = <<>> THEN 0 ELSE Utf8Width(Head(chars)) + Utf8Len(Tail(chars))

\* len(content.encode('utf-8')): AttributeError when content is not a str,
\* UnicodeEncodeError when it holds a lone surrogate.
EncodeExc(content) ==
    IF ~IsStr(content) THEN "AttributeError"
    ELSE IF content.t = "text"
            /\ \E i \in 1..Len(content.chars) : content.chars[i] = Surrogate
         THEN "UnicodeEncodeError"
         ELSE "none"

SizeBytes(content) == Utf8Len(content.chars)

\* --------------------------------------------------------------- timestamps
\* A datetime: naive, or aware with the instant counted in UTC.
DateTime(aware, n) == [aware |-> aware, time |-> n]

\* LogScanner._parse_timestamp: replace 'Z' by '+00:00', fromisoformat; on
\* ValueError (malformed, empty) or AttributeError (not a str) the current time.
ParseTimestamp(timestamp_str, now) ==
    IF timestamp_str.t = "isostr"
    THEN DateTime(timestamp_str.off \in {"Z", "+00:00"}, timestamp_str.time)
    ELSE now

(***************************************************************************)
(* Paths (pathlib.PurePosixPath).  A Path is the sequence of its parts,    *)
(* the first being "/" for an absolute path.                               *)
(***************************************************************************)
\* Path(file_path).parts: empty pieces and "." pieces are dropped.
RECURSIVE DropEmptyAndDot(_)
DropEmptyAndDot(raw) ==
    IF raw = <<>> THEN <<>>
    ELSE IF Head(raw) \in {"", "."} THEN DropEmptyAndDot(Tail(raw))
         ELSE <<Head(raw)>> \o DropEmptyAndDot(Tail(raw))

Parts(raw) ==
    IF Len(raw) >= 2 /\ raw[1] = ""
    THEN <<"/">> \o DropEmptyAndDot(raw)
    ELSE DropEmptyAndDot(raw)

IsAbsolute(path) == path # <<>> /\ path[1] = "/"

\* Path.name: the last part, unless it is the root.
Name(path) ==
    IF path = <<>> \/ path = <<"/">> THEN "" ELSE path[Len(path)]

\* Path(name): the path of one bare file name.
PathOfName(name) == IF name = "" THEN <<>> ELSE <<name>>

\* a / b: an absolute right operand replaces the left one.
Join(a, b) == IF IsAbsolute(b) THEN b ELSE a \o b

\* Path.parent.
Parent(path) ==
    IF path = <<>> \/ path = <<"/">> THEN path ELSE SubSeq(path, 1, Len(path) - 1)

\* target_path.with_suffix(target_path.suffix + '.backup'): the old suffix is
\* cut off the name and put back with '.backup' behind it.
WithBackupSuffix(path) ==
    SubSeq(path, 1, Len(path) - 1) \o <<Name(path) \o ".backup">>

(***************************************************************************)
(* FileRecord (models.py).  project_name is left out: nothing the model    *)
(* reads depends on it.                                                    *)
(***************************************************************************)
FileRecord(file_path, content, operation_type, timestamp, conversation_id) ==
    [file_path       |-> file_path,
     content         |-> content,
     operation_type  |-> operation_type,
     timestamp       |-> timestamp,
     conversation_id |-> conversation_id,
     size_bytes      |-> SizeBytes(content)]

\* str(path): the pieces between the slashes again.
Str(path) ==
    IF path = <<"/">> THEN <<"", "">>
    ELSE IF IsAbsolute(path) THEN <<"">> \o Tail(path) ELSE path

\* models.py:36-38
DisplayIndicators ==
    {"src", "lib", "app", "components", "pages", "api", "utils", "tests", "docs"}

\* A fallback that always keeps two parts.
FallbackAlwaysTwo(n) == 2

\* models.py:46-49: how many trailing parts are kept of n > 1 parts.
FallbackLength(n) == IF n > 3 THEN 3 ELSE 2

\* FileRecord.relative_path
RelativePath(raw) ==
    LET parts == Parts(raw)
        hits  == { i \in 2..Len(parts) : parts[i] \in DisplayIndicators }
    IN  IF hits # {}
        THEN LET i == CHOOSE h \in hits : \A g \in hits : h <= g
             IN  Str(SubSeq(parts, i, Len(parts)))
        ELSE IF Len(parts) > 1
             THEN Str(SubSeq(parts, Len(parts) - FallbackLength(Len(parts)) + 1,
                             Len(parts)))
             ELSE Str(PathOfName(Name(parts)))

\* What a piece of code did: the records it produced before it finished or
\* raised, and the exception it raised ("none" when it returned).
Outcome(events, exc) == [events |-> events, exc |-> exc]

\* FileRecord.file_extension: Path(file_path).suffix.lower(), for the file
\* names of the model.
FileExtension(file_record) ==
    LET name == Name(Parts(file_record.file_path.raw))
    IN  CASE name = "x.py"     -> ".py"
          [] name = "notes.md" -> ".md"
          [] OTHER             -> ""

\* FileRecord.file_type: type_map.get(ext, 'Other')
FileType(file_record) ==
    LET ext == FileExtension(file_record)
    IN  CASE ext = ".py" -> "Python"
          [] ext = ".md" -> "Markdown"
          [] OTHER       -> "Other"

\* The keyword arguments of FileRecord(...) are evaluated left to right:
\* container[path_key], container['content'], then content.encode('utf-8').
BuildRecordExc(container, path_key) ==
    IF PyIndexExc(container, path_key) # "none"
    THEN PyIndexExc(container, path_key)
    ELSE IF PyIndexExc(container, "content") # "none"
         THEN PyIndexExc(container, "content")
         ELSE EncodeExc(container.f["content"])

\* _extract_file_from_tool_use with Edit and MultiEdit treated like Write.
ExtractEditsToo(tool_use, timestamp, conversation_id) ==
    LET tool_name  == DictGet(tool_use, "name", JStr(""))
        tool_input == DictGet(tool_use, "input", EmptyDict)
    IN  IF /\ tool_name \in {JStr("Write"), JStr("Edit"), JStr("MultiEdit")}
           /\ PyIn("file_path", tool_input) = "true"
           /\ PyIn("content", tool_input) = "true"
           /\ BuildRecordExc(tool_input, "file_path") = "none"
        THEN Outcome(<<FileRecord(tool_input.f["file_path"], tool_input.f["content"],
                                  tool_name.s, timestamp, conversation_id)>>, "none")
        ELSE Outcome(<<>>, "none")

\* LogScanner._extract_file_from_tool_use, for tool_use a dict.
ExtractFileFromToolUse(tool_use, timestamp, conversation_id) ==
    LET tool_name  == DictGet(tool_use, "name", JStr(""))
        tool_input == DictGet(tool_use, "input", EmptyDict)
        has_path   == PyIn("file_path", tool_input)
    IN  IF tool_name = JStr("Write")
        THEN IF has_path = "TypeError" THEN Outcome(<<>>, "TypeError")
             ELSE IF has_path = "true" /\ PyIn("content", tool_input) = "true"
                  THEN IF BuildRecordExc(tool_input, "file_path") # "none"
                       THEN Outcome(<<>>, BuildRecordExc(tool_input, "file_path"))
                       ELSE Outcome(<<FileRecord(tool_input.f["file_path"],
                                                 tool_input.f["content"],
                                                 "Write", timestamp,
                                                 conversation_id)>>, "none")
                  ELSE Outcome(<<>>, "none")
        ELSE IF tool_name \in {JStr("Edit"), JStr("MultiEdit")}
             THEN IF has_path = "TypeError" THEN Outcome(<<>>, "TypeError")
                  ELSE Outcome(<<>>, "none")
             ELSE Outcome(<<>>, "none")

\* "for content_item in message['content']": each tool_use block goes through
\* _extract_file_from_tool_use; the loop ends at the first exception, with the
\* records of the earlier blocks already yielded.
RECURSIVE ScanContentItems(_, _, _)
ScanContentItems(items, timestamp, conversation_id) ==
    IF items = <<>> THEN Outcome(<<>>, "none")
    ELSE LET content_item == Head(items)
             first == IF ~IsDict(content_item) THEN Outcome(<<>>, "AttributeError")
                      ELSE IF DictGet(content_item, "type", JNull) = JStr("tool_use")
                           THEN ExtractFileFromToolUse(content_item, timestamp,
                                                       conversation_id)
                           ELSE Outcome(<<>>, "none")
         IN  IF first.exc # "none" THEN first
             ELSE LET rest == ScanContentItems(Tail(items), timestamp,
                                               conversation_id)
                  IN  Outcome(first.events \o rest.events, rest.exc)

\* scanner.py:122-135, the assistant tool-use shape, for entry a dict.
ScanAssistantEntry(entry, now, conversation_id) ==
    IF DictGet(entry, "type", JNull) = JStr("assistant") /\ "message" \in DOMAIN entry.f
    THEN LET message == entry.f["message"]
         IN  IF PyIn("content", message) = "TypeError" THEN Outcome(<<>>, "TypeError")
             ELSE IF PyIn("content", message) = "false" THEN Outcome(<<>>, "none")
             ELSE IF PyIndexExc(message, "content") # "none"
                  THEN Outcome(<<>>, PyIndexExc(message, "content"))
             ELSE IF ~IsList(message.f["content"]) THEN Outcome(<<>>, "none")
             ELSE ScanContentItems(
                      message.f["content"].items,
                      ParseTimestamp(DictGet(entry, "timestamp", JStr("")), now),
                      conversation_id)
    ELSE Outcome(<<>>, "none")

\* scanner.py:137-152, the user tool-result shape, for entry a dict.
ScanUserEntry(entry, now, conversation_id) ==
    IF DictGet(entry, "type", JNull) = JStr("user") /\ "toolUseResult" \in DOMAIN entry.f
    THEN LET result == entry.f["toolUseResult"]
         IN  IF IsDict(result) /\ DictGet(result, "type", JNull) = JStr("text")
             THEN LET file_info == DictGet(result, "file", EmptyDict)
                  IN  IF PyIn("filePath", file_info) = "TypeError"
                      THEN Outcome(<<>>, "TypeError")
                      ELSE IF PyIn("filePath", file_info) = "true"
                              /\ PyIn("content", file_info) = "true"
                           THEN IF BuildRecordExc(file_info, "filePath") # "none"
                                THEN Outcome(<<>>, BuildRecordExc(file_info, "filePath"))
                                ELSE Outcome(
                                    <<FileRecord(
                                        file_info.f["filePath"],
                                        file_info.f["content"],
                                        "Read",
                                        ParseTimestamp(
                                            DictGet(entry, "timestamp", JStr("")), now),
                                        conversation_id)>>, "none")
                           ELSE Outcome(<<>>, "none")
             ELSE Outcome(<<>>, "none")
    ELSE Outcome(<<>>, "none")

\* The body of the try block for one line (scanner.py:120-152).
ScanLineBody(line, now, conversation_id) ==
    IF line = BadJson THEN Outcome(<<>>, "JSONDecodeError")
    ELSE IF ~IsDict(line) THEN Outcome(<<>>, "AttributeError")   \* entry.get
    ELSE LET a == ScanAssistantEntry(line, now, conversation_id)
         IN  IF a.exc # "none" THEN a
             ELSE LET u == ScanUserEntry(line, now, conversation_id)
                  IN  Outcome(a.events \o u.events, u.exc)

\* except (json.JSONDecodeError, KeyError, TypeError): continue
CaughtPerLine == {"JSONDecodeError", "KeyError", "TypeError"}

\* One iteration of "for line in f": the records the line yields, and the
\* exception that leaves the generator ("none" when the loop goes on).
ScanLine(line, now, conversation_id) ==
    LET body == ScanLineBody(line, now, conversation_id)
    IN  Outcome(body.events, IF body.exc \in CaughtPerLine THEN "none" ELSE body.exc)

(***************************************************************************)
(* The log lines the scans are run over.  A path string is kept as the     *)
(* sequence of its pieces between slashes: "/a/b/src/x.py" is              *)
(* <<"", "a", "b", "src", "x.py">> (a leading "" is the leading slash).    *)
(***************************************************************************)
PathXPy   == <<"", "a", "b", "src", "x.py">>      \* /a/b/src/x.py
PathNotes == <<"", "a", "notes.md">>              \* /a/notes.md

TextHi    == JText(<<"a", "a">>)
TextEuro  == JText(<<"a", "e'", "EUR">>)
TextBad   == JText(<<"a", Surrogate>>)

ToolUse(name, input) ==
    JObj([type |-> JStr("tool_use"), name |-> JStr(name), input |-> input])
WriteInput(raw, content) ==
    JObj([file_path |-> JPath(raw), content |-> content])
WriteBlock(raw, content) == ToolUse("Write", WriteInput(raw, content))
TextBlock == JObj([type |-> JStr("text"), text |-> TextHi])

AssistantLine(ts, blocks) ==
    JObj([type |-> JStr("assistant"), timestamp |-> ts,
          message |-> JObj([role |-> JStr("assistant"), content |-> JList(blocks)])])
AssistantWith(message) ==
    JObj([type |-> JStr("assistant"), timestamp |-> JIso(1, "Z"), message |-> message])
ToolResult(file_info) == JObj([type |-> JStr("text"), file |-> file_info])
UserWith(result) ==
    JObj([type |-> JStr("user"), timestamp |-> JIso(1, "Z"), toolUseResult |-> result])
UserReadLine(ts, raw, content) ==
    JObj([type |-> JStr("user"), timestamp |-> ts,
          toolUseResult |-> ToolResult(JObj([filePath |-> JPath(raw),
                                             content |-> content]))])

\* Lines that are not valid JSON, or whose value is not a well-formed record.
MalformedLines ==
    { BadJson,                                            \* not JSON
      JNum, JList(<<>>),                                  \* not an object
      EmptyDict,                                          \* neither shape
      JObj([type |-> JStr("summary")]),
      JObj([type |-> JStr("assistant")]),                 \* no message
      AssistantWith(JNum),                                \* message: 7
      AssistantWith(JStr("content")),                     \* message: "content"
      AssistantWith(JObj([role |-> JStr("assistant")])),  \* no content
      AssistantWith(JObj([content |-> TextHi])),          \* content not a list
      AssistantLine(JIso(1, "Z"), <<JStr("hello")>>),     \* block not an object
      AssistantLine(JIso(1, "Z"), <<ToolUse("Write", JNull)>>),
      AssistantLine(JIso(1, "Z"),
                    <<ToolUse("Write", JObj([file_path |-> JPath(PathXPy)]))>>),
      AssistantLine(JIso(1, "Z"), <<WriteBlock(PathXPy, JNum)>>),
      AssistantLine(JIso(1, "Z"), <<WriteBlock(PathXPy, TextBad)>>),
      JObj([type |-> JStr("user")]),                      \* no toolUseResult
      UserWith(JStr("ok")),                               \* result not an object
      UserWith(JObj([type |-> JStr("image")])),
      UserWith(JObj([type |-> JStr("text")])),            \* no file
      UserWith(ToolResult(JNull)),
      UserWith(ToolResult(JObj([filePath |-> JPath(PathXPy)]))),
      UserWith(ToolResult(JObj([filePath |-> JPath(PathXPy), content |-> JNum]))),
      AssistantLine(JIso(1, "Z"), <<ToolUse("MultiEdit", JNull)>>) }

\* Well-formed records of the two recognised shapes.
WellFormedLines ==
    { AssistantLine(JIso(1, "Z"), <<WriteBlock(PathXPy, TextHi)>>),
      AssistantLine(JIso(2, "naive"), <<TextBlock, WriteBlock(PathNotes, TextEuro)>>),
      AssistantLine(JStr(""), <<WriteBlock(PathXPy, TextEuro)>>),
      AssistantLine(JIso(1, "Z"),
                    <<WriteBlock(PathXPy, TextHi), WriteBlock(PathNotes, TextHi)>>),
      AssistantLine(JIso(1, "Z"), <<ToolUse("Edit", WriteInput(PathXPy, TextHi))>>),
      AssistantLine(JIso(1, "Z"), <<ToolUse("MultiEdit", WriteInput(PathXPy, TextHi))>>),
      AssistantLine(JIso(1, "Z"), <<ToolUse("Bash", JObj([command |-> JStr("ls")]))>>),
      AssistantLine(JIso(1, "Z"), <<ToolUse("Edit", JObj([file_path |-> JPath(PathXPy)]))>>),
      AssistantLine(JIso(1, "Z"), <<ToolUse("Edit", WriteInput(PathXPy, TextEuro)),
                                    WriteBlock(PathNotes, TextHi)>>),
      UserReadLine(JIso(2, "Z"), PathXPy, TextEuro),
      UserReadLine(JNull, PathNotes, TextHi) }

ScanLineSet == MalformedLines \cup WellFormedLines

\* All sequences over S of length at most n.
SeqsUpTo(S, n) == UNION { [1..k -> S] : k \in 0..n }

ConversationId == "abc123"
ClockStart == 5

(***************************************************************************)
(* SpecScan: _scan_conversation_for_files as a generator over one log.     *)
(***************************************************************************)
ModelIdle ==
    /\ display_record = NoValue
    /\ relative_path = NoValue

RecIdle ==
    /\ create_backups = TRUE
    /\ fs = NoValue
    /\ fs_start = NoValue
    /\ file_records = <<>>
    /\ target_dir = NoValue
    /\ preserve_structure = TRUE
    /\ force = FALSE
    /\ rec_pc = "unused"
    /\ results = <<>>
    /\ io_log = <<>>
    /\ confirm_log = <<>>
    /\ preview = <<>>

ProjIdle ==
    /\ logs = <<>>
    /\ proj_pc = "unused"
    /\ conv_idx = 0
    /\ all_files = <<>>
    /\ scan_runs = <<>>
    /\ summary = NoValue
    /\ totals = NoValue
    /\ sum_trace = <<>>

ScanIdle ==
    /\ scan_lines = <<>>
    /\ scan_pos = 0
    /\ scan_yielded = <<>>
    /\ scan_trace = <<>>
    /\ scan_state = "unused"

ScanInit ==
    /\ clock = ClockStart
    /\ scan_lines \in SeqsUpTo(ScanLineSet, MaxLines)
    /\ scan_pos = 0
    /\ scan_yielded = <<>>
    /\ scan_trace = <<>>
    /\ scan_state = "running"
    /\ ProjIdle
    /\ RecIdle
    /\ ModelIdle

\* datetime.now() moves on between two steps of the program.
Tick ==
    /\ clock < ClockStart + MaxTicks
    /\ clock' = clock + 1

\* One iteration of "for line in f" (scanner.py:118-156): the line is parsed,
\* its records are yielded, a caught exception skips the rest of the line and
\* any other exception leaves the generator.
ScanNextLine ==
    /\ scan_state = "running"
    /\ scan_pos < Len(scan_lines)
    /\ \E out \in {ScanLine(scan_lines[scan_pos + 1], DateTime(FALSE, clock),
                             ConversationId)} :
           /\ scan_pos' = scan_pos + 1
           /\ scan_yielded' = scan_yielded \o out.events
           /\ scan_trace' = Append(scan_trace, out.events)
           /\ scan_state' = IF out.exc = "none" THEN "running" ELSE "raised"
    /\ UNCHANGED <<clock, scan_lines, projVars, recVars, modelVars>>

\* The file is read to its end: the generator is exhausted.
ScanEndOfFile ==
    /\ scan_state = "running"
    /\ scan_pos = Len(scan_lines)
    /\ scan_state' = "exhausted"
    /\ UNCHANGED <<clock, scan_lines, scan_pos, scan_yielded, scan_trace,
                   projVars, recVars, modelVars>>

ScanTick ==
    /\ Tick
    /\ scan_state = "running"
    /\ UNCHANGED <<scanVars, projVars, recVars, modelVars>>

ScanNext == ScanNextLine \/ ScanEndOfFile \/ ScanTick

SpecScan == ScanInit /\ [][ScanNext]_vars

\* C1: scanning one conversation log never fails because of a bad line: a
\* line that is not valid JSON or not a well-formed record yields no record,
\* the scan goes on with the next line and does not raise, so that a scan
\* that has come to its end has consumed every line and every well-formed
\* line with a Write block or a tool result has yielded its records.
C1_BadLineSkipped ==
    /\ scan_state # "raised"
    /\ \A i \in 1..scan_pos :
          scan_lines[i] \in MalformedLines => scan_trace[i] = <<>>
    /\ scan_state = "exhausted" => scan_pos = Len(scan_lines)

\* ---- the blocks of a log line, as the claims about the extractor read them
HasField(v, key) == IsDict(v) /\ key \in DOMAIN v.f

\* message.content of an assistant record, <<>> for any other line.
AssistantBlocks(line) ==
    IF /\ HasField(line, "type")
       /\ line.f["type"] = JStr("assistant")
       /\ HasField(line, "message")
       /\ HasField(line.f["message"], "content")
       /\ IsList(line.f["message"].f["content"])
    THEN line.f["message"].f["content"].items
    ELSE <<>>

IsToolUseNamed(block, names) ==
    /\ HasField(block, "type")
    /\ block.f["type"] = JStr("tool_use")
    /\ HasField(block, "name")
    /\ block.f["name"] \in { JStr(n) : n \in names }

\* A Write block whose input holds both file_path and content.
IsWriteWithBoth(block) ==
    /\ IsToolUseNamed(block, {"Write"})
    /\ HasField(block, "input")
    /\ HasField(block.f["input"], "file_path")
    /\ HasField(block.f["input"], "content")

IsEditBlock(block) == IsToolUseNamed(block, {"Edit", "MultiEdit"})

WriteEvents(events) == SelectSeq(events, LAMBDA r : r.operation_type = "Write")

\* C11: every assistant tool-use block named Write whose input has both
\* file_path and content yields exactly one event: operation Write, that path
\* and that content, size_bytes the UTF-8 byte length of the content.  Per
\* consumed line, the Write events are the line's such blocks, in order.
C11_WriteExtracted ==
    \A i \in 1..scan_pos :
        LET blocks == SelectSeq(AssistantBlocks(scan_lines[i]), IsWriteWithBoth)
            events == WriteEvents(scan_trace[i])
        IN  /\ Len(events) = Len(blocks)
            /\ \A k \in 1..Len(blocks) :
                  /\ events[k].file_path = blocks[k].f["input"].f["file_path"]
                  /\ events[k].content = blocks[k].f["input"].f["content"]
                  /\ events[k].content.t = "text"
                        => events[k].size_bytes = Utf8Len(events[k].content.chars)

\* C12: a tool-use block named Edit or MultiEdit yields no event, whatever its
\* input carries: every yielded event is a Write or a Read, and a line yields
\* at most one event per block that is not an Edit or MultiEdit block.
C12_NoEditEvents ==
    /\ \A k \in 1..Len(scan_yielded) :
          scan_yielded[k].operation_type \in {"Write", "Read"}
    /\ \A i \in 1..scan_pos :
          AssistantBlocks(scan_lines[i]) # <<>> =>
              Len(scan_trace[i]) <=
                  Len(SelectSeq(AssistantBlocks(scan_lines[i]),
                                LAMBDA b : ~IsEditBlock(b)))

\* A finished scan that met an Edit block carrying file_path and content next
\* to a Write block: the line yielded the Write's event only.
C12_Witness ==
    /\ scan_state = "exhausted"
    /\ \E i \in 1..scan_pos :
          /\ \E k \in 1..Len(AssistantBlocks(scan_lines[i])) :
                 /\ IsEditBlock(AssistantBlocks(scan_lines[i])[k])
                 /\ HasField(AssistantBlocks(scan_lines[i])[k].f["input"], "content")
          /\ Len(scan_trace[i]) = 1
          /\ scan_trace[i][1].operation_type = "Write"

(***************************************************************************)
(* SpecModels: the property FileRecord.relative_path read on one record.   *)
(***************************************************************************)
DisplayDirs == {"a", "b", "src", "utils", ".."}

\* Paths of a file x.py under up to MaxDirs directories, absolute and relative.
DisplayPaths ==
    UNION { { <<"">> \o dirs \o <<"x.py">>, dirs \o <<"x.py">> } :
            dirs \in SeqsUpTo(DisplayDirs, MaxDirs) }

ModelsInit ==
    /\ clock = ClockStart
    /\ display_record \in { FileRecord(JPath(raw), TextHi, "Write", DateTime(TRUE, 1),
                                       ConversationId) : raw \in DisplayPaths }
    /\ relative_path = NoValue
    /\ ScanIdle
    /\ ProjIdle
    /\ RecIdle

\* file_record.relative_path is read (cli.py:155).
ReadRelativePath ==
    /\ display_record # NoValue
    /\ relative_path = NoValue
    /\ relative_path' = JPath(RelativePath(display_record.file_path.raw))
    /\ UNCHANGED <<clock, display_record, scanVars, projVars, recVars>>

ModelsNext == ReadRelativePath

SpecModels == ModelsInit /\ [][ModelsNext]_vars

\* The parts of the displayed path and the positions (counted from 1, the
\* root "/" being part 1 of an absolute path) of its root markers.
DisplayParts == Parts(display_record.file_path.raw)
DisplayMarkers ==
    { k \in 2..Len(DisplayParts) :
        DisplayParts[k] \in {"src", "lib", "app", "components", "pages", "api",
                             "utils", "tests", "docs"} }
LastParts(n) == Str(SubSeq(DisplayParts, Len(DisplayParts) - n + 1, Len(DisplayParts)))

\* What the heuristic returns: from the first marker onward, else the last
\* three parts of more than three, else the last two, else the bare name.
C16_Heuristic ==
    /\ DisplayMarkers # {} =>
          \E k \in DisplayMarkers :
              /\ \A m \in DisplayMarkers : k <= m
              /\ relative_path.raw = LastParts(Len(DisplayParts) - k + 1)
    /\ DisplayMarkers = {} =>
          relative_path.raw = IF Len(DisplayParts) > 3 THEN LastParts(3)
                              ELSE IF Len(DisplayParts) > 1 THEN LastParts(2)
                              ELSE LastParts(1)
    /\ relative_path.raw[Len(relative_path.raw)] = Name(DisplayParts)

C16_Read == relative_path # NoValue /\ IsAbsolute(DisplayParts)

\* C16 as the specification states it: for an absolute path, relative_path is
\* the sub-path from the first root marker at index > 0 onward; otherwise the
\* last 3 segments of more than 3, else the last 2, else the bare filename;
\* in every case a relative path that ends with the file's name.
C16_AlwaysRelative ==
    C16_Read => C16_Heuristic /\ relative_path.raw[1] # ""

\* C16, amended: the same heuristic (segments being the path's parts, the
\* root "/" counted as the first); the result ends with the file's name and
\* is a relative path, except for a file directly under the root without a
\* marker (such as /x.py), for which it is the absolute path itself.
C16_RelativeUnlessUnderRoot ==
    C16_Read =>
        /\ C16_Heuristic
        /\ (relative_path.raw[1] = "") <=> (DisplayMarkers = {} /\ Len(DisplayParts) = 2)

C16_Witness ==
    /\ display_record # NoValue
    /\ display_record.file_path = JPath(<<"", "x.py">>)
    /\ relative_path = JPath(<<"", "x.py">>)

(***************************************************************************)
(* SpecProject: scan_project_for_files over the logs of one project.       *)
(***************************************************************************)
\* list(self._scan_conversation_for_files(conv_file)): the records of the
\* whole file, or the exception that left the generator (the records yielded
\* before it are lost with the list).
RECURSIVE ScanConversationForFiles(_, _, _)
ScanConversationForFiles(lines, now, conversation_id) ==
    IF lines = <<>> THEN Outcome(<<>>, "none")
    ELSE LET first == ScanLine(Head(lines), now, conversation_id)
         IN  IF first.exc # "none" THEN first
             ELSE LET rest == ScanConversationForFiles(Tail(lines), now,
                                                       conversation_id)
                  IN  Outcome(first.events \o rest.events, rest.exc)

\* datetime "<": an aware and a naive datetime cannot be ordered (TypeError).
Comparable(a, b) == a.aware = b.aware
Before(a, b) == a.time < b.time

\* A sort compares an aware with a naive key as soon as the list holds both.
SortRaises(records) ==
    \E i, j \in 1..Len(records) :
        ~Comparable(records[i].timestamp, records[j].timestamp)

\* list.sort(key=lambda f: f.timestamp, reverse=True): descending, stable
\* (records with equal keys keep their order).
RECURSIVE InsertDesc(_, _)
InsertDesc(sorted, r) ==
    IF sorted = <<>> THEN <<r>>
    ELSE IF Before(Head(sorted).timestamp, r.timestamp)
         THEN <<r>> \o sorted
         ELSE <<Head(sorted)>> \o InsertDesc(Tail(sorted), r)

RECURSIVE SortByTimestampDesc(_)
SortByTimestampDesc(records) ==
    IF records = <<>> THEN <<>>
    ELSE InsertDesc(SortByTimestampDesc(SubSeq(records, 1, Len(records) - 1)),
                    records[Len(records)])

\* The keys of file_versions in insertion order (scanner.py:93-95).
RECURSIVE GroupKeys(_)
GroupKeys(records) ==
    IF records = <<>> THEN <<>>
    ELSE LET before == GroupKeys(SubSeq(records, 1, Len(records) - 1))
             key    == records[Len(records)].file_path
         IN  IF \E i \in 1..Len(before) : before[i] = key
             THEN before ELSE Append(before, key)

\* file_versions[file_path]: the records of that path, in scan order.
Versions(records, file_path) ==
    SelectSeq(records, LAMBDA r : r.file_path = file_path)

\* scanner.py:100-108 for one path: the latest version, with _version_count
\* attached when there is more than one version.
LatestVersion(versions) ==
    LET latest == SortByTimestampDesc(versions)[1]
    IN  [record            |-> latest,
         has_version_count |-> Len(versions) > 1,
         version_count     |-> IF Len(versions) > 1 THEN Len(versions) ELSE 0]

\* scanner.py:92-110: what scan_project_for_files returns for all_files, or
\* the TypeError of a sort.
ResolveFiles(records) ==
    LET keys  == GroupKeys(records)
        final == [i \in 1..Len(keys) |-> Versions(records, keys[i])]
    IN  IF \E i \in 1..Len(keys) : SortRaises(final[i])
        THEN [raised |-> TRUE, files |-> <<>>]
        ELSE LET final_files == [i \in 1..Len(keys) |-> LatestVersion(final[i])]
             IN  IF SortRaises([i \in 1..Len(keys) |-> final_files[i].record])
                 THEN [raised |-> TRUE, files |-> <<>>]
                 ELSE [raised |-> FALSE,
                       files  |-> SortByTimestampDesc(
                                     [i \in 1..Len(keys) |->
                                        [file_path |-> final_files[i].record.file_path,
                                         timestamp |-> final_files[i].record.timestamp,
                                         record    |-> final_files[i].record,
                                         has_version_count |->
                                             final_files[i].has_version_count,
                                         version_count |->
                                             final_files[i].version_count]])]

ProjLineSet ==
    { AssistantLine(JIso(1, "Z"), <<WriteBlock(PathXPy, TextHi)>>),
      UserReadLine(JIso(2, "Z"), PathXPy, TextEuro),
      AssistantLine(JIso(3, "naive"), <<WriteBlock(PathXPy, TextEuro)>>),
      AssistantLine(JStr(""), <<WriteBlock(PathXPy, TextHi)>>),
      AssistantLine(JIso(2, "+00:00"), <<WriteBlock(PathNotes, TextHi)>>),
      UserReadLine(JIso(1, "Z"), PathNotes, TextEuro),
      BadJson,
      JNum }

\* The project's conversation files: two logs, in the order of
\* project_path.glob("*.jsonl").
ProjectLogs ==
    UNION { { <<SubSeq(s, 1, k), SubSeq(s, k + 1, Len(s))>> : k \in 0..Len(s) } :
            s \in SeqsUpTo(ProjLineSet, MaxLogLines) }

ConversationIds == <<"conv1", "conv2">>

ProjInit ==
    /\ clock = ClockStart
    /\ logs \in ProjectLogs
    /\ proj_pc = "idle"
    /\ conv_idx = 0
    /\ all_files = <<>>
    /\ scan_runs = <<>>
    /\ summary = NoValue
    /\ totals = NoValue
    /\ sum_trace = <<>>
    /\ ScanIdle
    /\ RecIdle
    /\ ModelIdle

\* scan_project_for_files is called (scanner.py:72-75).
ScanProjectStart ==
    /\ proj_pc = "idle"
    /\ Len(scan_runs) < MaxRuns
    /\ proj_pc' = "scanning"
    /\ conv_idx' = 0
    /\ all_files' = <<>>
    /\ UNCHANGED <<clock, logs, scan_runs, summary, totals, sum_trace,
                   scanVars, recVars, modelVars>>

\* One iteration of "for conv_file in conversation_files" (scanner.py:83-90):
\* the records of the file are appended, unless its scan raised.
ScanConversationFile ==
    /\ proj_pc = "scanning"
    /\ conv_idx < Len(logs)
    /\ \E out \in {ScanConversationForFiles(logs[conv_idx + 1],
                                             DateTime(FALSE, clock),
                                             ConversationIds[conv_idx + 1])} :
           all_files' = IF out.exc = "none" THEN all_files \o out.events
                        ELSE all_files
    /\ conv_idx' = conv_idx + 1
    /\ UNCHANGED <<clock, logs, proj_pc, scan_runs, summary, totals, sum_trace,
                   scanVars, recVars, modelVars>>

\* scanner.py:92-110: versions are grouped and sorted and the list returned,
\* or a sort raises and the call ends with that exception.
ResolveVersions ==
    /\ proj_pc = "scanning"
    /\ conv_idx = Len(logs)
    /\ scan_runs' = Append(scan_runs, ResolveFiles(all_files))
    /\ proj_pc' = "idle"
    /\ UNCHANGED <<clock, logs, conv_idx, all_files, summary, totals, sum_trace,
                   scanVars, recVars, modelVars>>

\* ---- get_project_summary
\* scanner.py:42-45
ZeroTotals ==
    [file_count |-> 0, total_size |-> 0, latest_activity |-> NoValue, file_types |-> <<>>]

\* file_types[file_type] += 1 on a Counter
CounterIncrement(counter, key) ==
    IF key \in DOMAIN counter THEN [counter EXCEPT ![key] = @ + 1]
    ELSE counter @@ (key :> 1)

\* scanner.py:52-56, "for file_record in files": size and type are counted,
\* then the timestamp is compared with latest_activity; the comparison of an
\* aware with a naive datetime raises TypeError, the counts made so far stay.
RECURSIVE TallyRecords(_, _)
TallyRecords(t, files) ==
    IF files = <<>> THEN [totals |-> t, error |-> "none"]
    ELSE LET file_record == Head(files)
             counted == [t EXCEPT !.total_size = @ + file_record.size_bytes,
                                  !.file_types =
                                      CounterIncrement(@, FileType(file_record))]
         IN  IF t.latest_activity = NoValue
             THEN TallyRecords([counted EXCEPT !.latest_activity =
                                                   file_record.timestamp],
                               Tail(files))
             ELSE IF ~Comparable(file_record.timestamp, t.latest_activity)
                  THEN [totals |-> counted, error |-> "TypeError"]
                  ELSE IF Before(t.latest_activity, file_record.timestamp)
                       THEN TallyRecords([counted EXCEPT !.latest_activity =
                                                             file_record.timestamp],
                                         Tail(files))
                       ELSE TallyRecords(counted, Tail(files))

\* scanner.py:48-60, the try block for one conversation file: an exception
\* of the scan leaves the totals alone; otherwise file_count grows by
\* len(files) and the records are tallied.
SummariseFile(t, out) ==
    IF out.exc # "none" THEN [totals |-> t, files |-> <<>>, error |-> out.exc]
    ELSE LET tally == TallyRecords([t EXCEPT !.file_count = @ + Len(out.events)],
                                   out.events)
         IN  [totals |-> tally.totals, files |-> out.events, error |-> tally.error]

\* ProjectSummary (models.py); name and path are left out.
ProjectSummary(conversation_count, t) ==
    [conversation_count |-> conversation_count,
     file_count         |-> t.file_count,
     total_size_bytes   |-> t.total_size,
     latest_activity    |-> t.latest_activity,
     file_types         |-> t.file_types]

\* get_project_summary is called (scanner.py:37-45).
GetProjectSummaryStart ==
    /\ proj_pc = "idle"
    /\ summary = NoValue
    /\ proj_pc' = "summarising"
    /\ conv_idx' = 0
    /\ totals' = ZeroTotals
    /\ sum_trace' = <<>>
    /\ UNCHANGED <<clock, logs, all_files, scan_runs, summary,
                   scanVars, recVars, modelVars>>

\* One iteration of "for conv_file in conversation_files" (scanner.py:47-60).
SummariseConversationFile ==
    /\ proj_pc = "summarising"
    /\ conv_idx < Len(logs)
    /\ \E step \in {SummariseFile(totals,
                                  ScanConversationForFiles(logs[conv_idx + 1],
                                                           DateTime(FALSE, clock),
                                                           ConversationIds[conv_idx + 1]))} :
           /\ totals' = step.totals
           /\ sum_trace' = Append(sum_trace, [files |-> step.files, error |-> step.error])
    /\ conv_idx' = conv_idx + 1
    /\ UNCHANGED <<clock, logs, proj_pc, all_files, scan_runs, summary,
                   scanVars, recVars, modelVars>>

\* scanner.py:62-70
GetProjectSummaryReturn ==
    /\ proj_pc = "summarising"
    /\ conv_idx = Len(logs)
    /\ summary' = ProjectSummary(Len(logs), totals)
    /\ proj_pc' = "idle"
    /\ UNCHANGED <<clock, logs, conv_idx, all_files, scan_runs, totals, sum_trace,
                   scanVars, recVars, modelVars>>

ProjTick ==
    /\ Tick
    /\ proj_pc # "unused"
    /\ UNCHANGED <<scanVars, projVars, recVars, modelVars>>

ProjNext ==
    \/ ScanProjectStart
    \/ ScanConversationFile
    \/ ResolveVersions
    \/ GetProjectSummaryStart
    \/ SummariseConversationFile
    \/ GetProjectSummaryReturn
    \/ ProjTick

SpecProject == ProjInit /\ [][ProjNext]_vars

\* The paths that occur in a list of records.
PathsOf(records) == { records[i].file_path : i \in 1..Len(records) }

\* The entries of a returned list that stand for one path.
EntriesFor(files, file_path) ==
    { i \in 1..Len(files) : files[i].file_path = file_path }

PairwiseDistinctTimestamps(versions) ==
    \A i, j \in 1..Len(versions) :
        i # j => versions[i].timestamp # versions[j].timestamp

\* r is the record of versions with the maximum timestamp.
HasMaxTimestamp(r, versions) ==
    /\ \E i \in 1..Len(versions) : versions[i] = r
    /\ \A i \in 1..Len(versions) :
          versions[i] # r => /\ Comparable(versions[i].timestamp, r.timestamp)
                             /\ Before(versions[i].timestamp, r.timestamp)

\* The version count a returned entry stands for; an entry without
\* _version_count is a single version (cli.py:178 reads it with hasattr).
VersionCountOf(entry) ==
    IF entry.has_version_count THEN entry.version_count ELSE 1

\* The call of scan_project_for_files that has just returned or raised.
LastRun == scan_runs[Len(scan_runs)]
RunFinished == proj_pc = "idle" /\ scan_runs # <<>>

\* C2: versioning in scan_project_for_files: N events that share a file path
\* and have pairwise distinct timestamps resolve to exactly one record for
\* that path, the event with the maximum timestamp (with its content and
\* operation), with a version count of N.
C2_Versioning ==
    RunFinished =>
        \A p \in PathsOf(all_files) :
            LET versions == Versions(all_files, p)
            IN  PairwiseDistinctTimestamps(versions) =>
                    /\ ~LastRun.raised
                    /\ Cardinality(EntriesFor(LastRun.files, p)) = 1
                    /\ \A i \in EntriesFor(LastRun.files, p) :
                          /\ HasMaxTimestamp(LastRun.files[i].record, versions)
                          /\ VersionCountOf(LastRun.files[i]) = Len(versions)

\* C8: idempotence of the project aggregator: two calls of
\* scan_project_for_files over the unchanged logs return identical resolved
\* lists (same paths, same contents, same canonical timestamps), also for
\* logs with records whose timestamp is missing or malformed.
C8_Idempotent ==
    \A i, j \in 1..Len(scan_runs) : scan_runs[i] = scan_runs[j]

\* C14: the batch scan always completes: every call of
\* scan_project_for_files returns a resolved list, also for logs that mix
\* timestamps with a UTC offset with timestamps without one or with missing
\* or malformed ones (replaced by the current time).
C14_ScanCompletes ==
    \A i \in 1..Len(scan_runs) : ~scan_runs[i].raised

\* The records of the conversation files that get_project_summary processed
\* without an error, in order.
RECURSIVE OkRecords(_)
OkRecords(trace) ==
    IF trace = <<>> THEN <<>>
    ELSE (IF Head(trace).error = "none" THEN Head(trace).files ELSE <<>>)
         \o OkRecords(Tail(trace))

RECURSIVE SumSizes(_)
SumSizes(records) ==
    IF records = <<>> THEN 0 ELSE Head(records).size_bytes + SumSizes(Tail(records))

CountOfType(records, type) ==
    Cardinality({ k \in 1..Len(records) : FileType(records[k]) = type })

HistogramCount(counter, type) == IF type \in DOMAIN counter THEN counter[type] ELSE 0

IsLatestOf(timestamp, records) ==
    IF records = <<>> THEN timestamp = NoValue
    ELSE /\ \E k \in 1..Len(records) : records[k].timestamp = timestamp
         /\ \A k \in 1..Len(records) :
               /\ Comparable(records[k].timestamp, timestamp)
               /\ ~Before(timestamp, records[k].timestamp)

\* C13: an error raised while get_project_summary processes one log file does
\* not abort the summary: it is returned, the failing file contributes nothing
\* to the file count, the total size, the type histogram and the latest
\* timestamp, and every other file contributes all of its events.
C13_SummarySkipsFailedFile ==
    summary # NoValue =>
        LET records == OkRecords(sum_trace)
        IN  /\ Len(sum_trace) = Len(logs)
            /\ summary.file_count = Len(records)
            /\ summary.total_size_bytes = SumSizes(records)
            /\ \A type \in {"Python", "Markdown", "Other"} :
                  HistogramCount(summary.file_types, type) = CountOfType(records, type)
            /\ IsLatestOf(summary.latest_activity, records)

\* C20: summary and scan agree on the number of recoverable files: when all
\* logs of the project scan without error, the file_count of
\* get_project_summary equals the number of records in the list that
\* scan_project_for_files returns over the same logs.
C20_SummaryCountIsListLength ==
    (summary # NoValue /\ \A k \in 1..Len(sum_trace) : sum_trace[k].error = "none")
        => \A i \in 1..Len(scan_runs) :
               /\ ~scan_runs[i].raised
               /\ summary.file_count = Len(scan_runs[i].files)

\* recovery.py:141-143
ProjectIndicators == {"src", "lib", "app", ".claude", "tests", "docs"}

\* Keeping the path from the indicator itself, as FileRecord.relative_path does.
KeepFromIndicator(i) == i

\* The part from which _make_relative_path keeps the path, for the indicator
\* at position i of parts (counted from 1): its parent.
KeepFrom(i) == i - 1

\* FileRecovery._make_relative_path
MakeRelativePath(raw) ==
    LET parts == Parts(raw)
        hits  == { i \in 2..Len(parts) : parts[i] \in ProjectIndicators }
    IN  IF hits # {}
        THEN LET i == CHOOSE h \in hits : \A g \in hits : h <= g
             IN  SubSeq(parts, KeepFrom(i), Len(parts))
        ELSE PathOfName(Name(parts))

\* A resolution with the two layouts mixed up.
TargetPathSwapped(file_record, dir, preserve) ==
    IF dir.given
    THEN IF ~preserve
         THEN Join(dir.path, MakeRelativePath(file_record.file_path.raw))
         ELSE Join(dir.path, PathOfName(Name(Parts(file_record.file_path.raw))))
    ELSE Parts(file_record.file_path.raw)

\* recovery.py:114-123 and 38-39: the path recover_file works on.
TargetPath(file_record, dir, preserve) ==
    IF dir.given
    THEN IF preserve
         THEN Join(dir.path, MakeRelativePath(file_record.file_path.raw))
         ELSE Join(dir.path, PathOfName(Name(Parts(file_record.file_path.raw))))
    ELSE Parts(file_record.file_path.raw)

(***************************************************************************)
(* The filesystem: fs.files maps the location of every regular file to its *)
(* content, fs.dirs is the set of directories.  Locations are absolute     *)
(* paths without ".." parts.                                               *)
(***************************************************************************)
Root == <<"/">>
Cwd  == <<"/", "cwd">>
Unresolved == <<>>

IsFile(f, loc) == loc \in DOMAIN f.files
IsDir(f, loc)  == loc \in f.dirs

\* The kernel walks a path part by part: every part passed through must be a
\* directory, ".." steps to the parent.  Unresolved when it is not.
RECURSIVE Walk(_, _, _)
Walk(f, cur, rest) ==
    IF rest = <<>> THEN cur
    ELSE IF ~IsDir(f, cur) THEN Unresolved
         ELSE Walk(f, IF Head(rest) = ".." THEN Parent(cur) ELSE Append(cur, Head(rest)),
                   Tail(rest))

Locate(f, path) ==
    IF IsAbsolute(path) THEN Walk(f, Root, Tail(path)) ELSE Walk(f, Cwd, path)

\* Path.exists()
Exists(f, path) ==
    LET loc == Locate(f, path)
    IN  loc # Unresolved /\ (IsFile(f, loc) \/ IsDir(f, loc))

\* Path.mkdir(parents=True, exist_ok=True): every directory on the way is
\* made; a regular file on the way is an error.
RECURSIVE MkdirWalk(_, _, _)
MkdirWalk(f, cur, rest) ==
    IF IsFile(f, cur) THEN [ok |-> FALSE, dirs |-> f.dirs]
    ELSE LET g == [f EXCEPT !.dirs = @ \cup {cur}]
         IN  IF rest = <<>> THEN [ok |-> TRUE, dirs |-> g.dirs]
             ELSE MkdirWalk(g, IF Head(rest) = ".." THEN Parent(cur)
                               ELSE Append(cur, Head(rest)),
                            Tail(rest))

MkdirParents(f, path) ==
    IF IsAbsolute(path) THEN MkdirWalk(f, Root, Tail(path)) ELSE MkdirWalk(f, Cwd, path)

\* What is left of a file that was opened for writing and not written.
Truncated == <<>>

NoError == "None"
RecoveryResult(file_record, success, target_path, error_message, was_existing, backup_created) ==
    [file_record    |-> file_record,
     success        |-> success,
     target_path    |-> target_path,
     error_message  |-> error_message,
     was_existing   |-> was_existing,
     backup_created |-> backup_created]

\* The I/O failures the environment can inject into one recover_file call.
Faults == {"none", "mkdir", "copy", "open", "write"}

\* recovery.py:58-60: target_path.parent.mkdir(parents=True, exist_ok=True)
MkdirStep(f, target, fault) ==
    LET made == MkdirParents(f, Parent(target))
    IN  IF fault = "mkdir" \/ ~made.ok
        THEN [ok |-> FALSE, fs |-> f, error |-> "OSError: mkdir",
              io |-> <<[op |-> "mkdir", path |-> Parent(target), ok |-> FALSE]>>]
        ELSE [ok |-> TRUE, fs |-> [f EXCEPT !.dirs = made.dirs], error |-> NoError,
              io |-> <<[op |-> "mkdir", path |-> Parent(target), ok |-> TRUE]>>]

\* A backup step that creates the backup file and copies nothing into it.
BackupStepEmpty(f, target, fault) ==
    LET dst == Locate(f, WithBackupSuffix(target))
    IN  [ok |-> TRUE, fs |-> [f EXCEPT !.files = (dst :> Truncated) @@ @],
         error |-> NoError,
         io |-> <<[op |-> "copy", path |-> target, ok |-> TRUE]>>]

\* A backup step whose failure is swallowed: the write goes on.
BackupStepSwallowing(f, target, fault) ==
    LET src == Locate(f, target)
        dst == Locate(f, WithBackupSuffix(target))
    IN  IF fault = "copy" \/ src = Unresolved \/ ~IsFile(f, src)
        THEN [ok |-> TRUE, fs |-> f, error |-> NoError,
              io |-> <<[op |-> "copy", path |-> target, ok |-> FALSE]>>]
        ELSE [ok |-> TRUE, fs |-> [f EXCEPT !.files = (dst :> f.files[src]) @@ @],
              error |-> NoError,
              io |-> <<[op |-> "copy", path |-> target, ok |-> TRUE]>>]

\* recovery.py:63-67: shutil.copy2(target_path, backup_path).  A failed copy
\* may have created the backup file already, without its data.
BackupStep(f, target, fault) ==
    LET src == Locate(f, target)
        dst == Locate(f, WithBackupSuffix(target))
    IN  IF src = Unresolved \/ ~IsFile(f, src) \/ dst = Unresolved \/ IsDir(f, dst)
        THEN [ok |-> FALSE, fs |-> f, error |-> "OSError: copy",
              io |-> <<[op |-> "copy", path |-> target, ok |-> FALSE]>>]
        ELSE IF fault = "copy"
        THEN [ok |-> FALSE,
              fs |-> [f EXCEPT !.files = (dst :> Truncated) @@ @],
              error |-> "OSError: copy",
              io |-> <<[op |-> "copy", path |-> target, ok |-> FALSE]>>]
        ELSE [ok |-> TRUE,
              fs |-> [f EXCEPT !.files = (dst :> f.files[src]) @@ @],
              error |-> NoError,
              io |-> <<[op |-> "copy", path |-> target, ok |-> TRUE]>>]

\* recovery.py:69-71: open(target_path, 'w') truncates or creates the file,
\* f.write puts the content in.
WriteStep(f, target, content, fault) ==
    LET loc == Locate(f, target)
    IN  IF fault = "open" \/ loc = Unresolved \/ IsDir(f, loc)
        THEN [ok |-> FALSE, fs |-> f, error |-> "OSError: open",
              io |-> <<[op |-> "open_w", path |-> target, ok |-> FALSE]>>]
        ELSE IF fault = "write"
        THEN [ok |-> FALSE,
              fs |-> [f EXCEPT !.files = (loc :> Truncated) @@ @],
              error |-> "OSError: write",
              io |-> <<[op |-> "open_w", path |-> target, ok |-> TRUE],
                       [op |-> "write", path |-> target, ok |-> FALSE]>>]
        ELSE [ok |-> TRUE,
              fs |-> [f EXCEPT !.files = (loc :> content) @@ @],
              error |-> NoError,
              io |-> <<[op |-> "open_w", path |-> target, ok |-> TRUE],
                       [op |-> "write", path |-> target, ok |-> TRUE]>>]

\* Whether recover_file copies the existing file before it writes.
WantsBackup(was_existing, backups) == was_existing /\ backups

\* A prompt that comes up for every existing target, forced or not.
AsksWheneverExisting(was_existing, frc) == was_existing

\* recovery.py:45-46: Confirm.ask is reached when the target exists and force
\* is off.
AsksConfirmation(was_existing, frc) == was_existing /\ ~frc

\* An answer that is asked for and then ignored.
NeverDeclines(asked, answer) == FALSE

\* recovery.py:45-49: Confirm.ask is consulted and answers no.
Declines(asked, answer) == asked /\ ~answer

\* An except branch that reports the file as recovered.
FailedResultAsSuccess(file_record, target, error, was_existing, backup_created) ==
    RecoveryResult(file_record, TRUE, target, NoError, was_existing, backup_created)

\* recovery.py:83-91: the result built in the except branch.
FailedResult(file_record, target, error, was_existing, backup_created) ==
    RecoveryResult(file_record, FALSE, target, error, was_existing, backup_created)

\* FileRecovery.recover_file, with the answer Confirm.ask would give and the
\* I/O failure the environment injects: the filesystem it leaves, its result,
\* the filesystem calls it made and whether it asked.
RecoverFile(f, backups, file_record, target, frc, answer, fault) ==
    LET was_existing == Exists(f, target)
        asked        == AsksConfirmation(was_existing, frc)
        mk           == MkdirStep(f, target, fault)
        bk           == BackupStep(mk.fs, target, fault)
        wr_fs        == IF WantsBackup(was_existing, backups) THEN bk.fs ELSE mk.fs
        wr           == WriteStep(wr_fs, target, file_record.content.chars, fault)
    IN  IF Declines(asked, answer)
        THEN [fs |-> f, io |-> <<>>, asked |-> asked,
              result |-> RecoveryResult(file_record, FALSE, target,
                                        "User cancelled overwrite", TRUE, FALSE)]
        ELSE IF ~mk.ok
        THEN [fs |-> mk.fs, io |-> mk.io, asked |-> asked,
              result |-> FailedResult(file_record, target, mk.error,
                                      was_existing, FALSE)]
        ELSE IF WantsBackup(was_existing, backups) /\ ~bk.ok
        THEN [fs |-> bk.fs, io |-> mk.io \o bk.io, asked |-> asked,
              result |-> FailedResult(file_record, target, bk.error,
                                      was_existing, FALSE)]
        ELSE [fs |-> wr.fs,
              io |-> mk.io \o (IF WantsBackup(was_existing, backups) THEN bk.io ELSE <<>>)
                     \o wr.io,
              asked |-> asked,
              result |-> IF wr.ok
                         THEN RecoveryResult(file_record, TRUE, target, NoError,
                                             was_existing,
                                             WantsBackup(was_existing, backups))
                         ELSE FailedResult(file_record, target, wr.error,
                                           was_existing,
                                           WantsBackup(was_existing, backups))]

(***************************************************************************)
(* Spec: FileRecovery over a small filesystem.                             *)
(***************************************************************************)
PathRootSrc == <<"", "src", "x.py">>                             \* /src/x.py
PathDotDot  == <<"", "a", "lib", "..", "..", "..", "etc", "x.py">>
PathRel     == <<"src", "x.py">>                                  \* src/x.py

OldText  == <<"e'", "a">>
OldText2 == <<"EUR">>

Record(raw, content) ==
    FileRecord(JPath(raw), content, "Write", DateTime(TRUE, 1), ConversationId)

RecoveryRecords ==
    { Record(PathXPy, TextHi), Record(PathRootSrc, TextEuro),
      Record(PathNotes, TextHi), Record(PathDotDot, TextHi),
      Record(PathRel, TextEuro) }

OutDir == <<"/", "out">>
NoDir  == [given |-> FALSE, path |-> <<>>]
Dir(path) == [given |-> TRUE, path |-> path]

FsEmpty == [files |-> <<>>, dirs |-> {Root, Cwd}]
FsUsed ==
    [files |-> (<<"/", "a", "b", "src", "x.py">> :> OldText)
               @@ (<<"/", "out", "b", "src", "x.py">> :> OldText)
               @@ (<<"/", "out", "x.py">> :> OldText2),
     dirs  |-> {Root, Cwd, <<"/", "a">>, <<"/", "a", "b">>, <<"/", "a", "b", "src">>,
                OutDir, <<"/", "out", "b">>, <<"/", "out", "b", "src">>,
                <<"/", "out", "notes.md">>}]
InitialFilesystems == {FsEmpty, FsUsed}

Init ==
    /\ clock = ClockStart
    /\ create_backups \in BOOLEAN
    /\ fs \in InitialFilesystems
    /\ fs_start = fs
    /\ file_records \in SeqsUpTo(RecoveryRecords, MaxEvents)
    /\ target_dir \in {NoDir, Dir(OutDir)}
    /\ preserve_structure \in (IF target_dir.given THEN BOOLEAN ELSE {TRUE})
    /\ force \in BOOLEAN
    /\ rec_pc = "idle"
    /\ results = <<>>
    /\ io_log = <<>>
    /\ confirm_log = <<>>
    /\ preview = <<>>
    /\ ScanIdle
    /\ ProjIdle
    /\ ModelIdle

\* FileRecovery.preview_recovery: per record the target path and whether a
\* file is there; nothing but exists() touches the filesystem.
PreviewLines(f, records, dir, preserve) ==
    [i \in 1..Len(records) |->
        LET target_path == TargetPath(records[i], dir, preserve)
        IN  [target_path |-> target_path,
             status |-> IF ~Exists(f, target_path) THEN "NEW" ELSE "OVERWRITE"]]

\* A preview that makes the directories of its targets.
PreviewRecoveryMakingDirs ==
    /\ rec_pc = "idle"
    /\ rec_pc' = "previewed"
    /\ preview' = PreviewLines(fs, file_records, target_dir, preserve_structure)
    /\ fs' = [fs EXCEPT !.dirs = @ \cup
                 { Parent(preview'[i].target_path) : i \in 1..Len(preview') }]
    /\ UNCHANGED <<clock, create_backups, fs_start, file_records, target_dir,
                   preserve_structure, force, results, io_log, confirm_log,
                   scanVars, projVars, modelVars>>

\* The command previews or recovers (cli.py:293-296), so a preview ends the run.
PreviewRecovery ==
    /\ rec_pc = "idle"
    /\ rec_pc' = "previewed"
    /\ preview' = PreviewLines(fs, file_records, target_dir, preserve_structure)
    /\ UNCHANGED <<clock, create_backups, fs, fs_start, file_records, target_dir,
                   preserve_structure, force, results, io_log, confirm_log,
                   scanVars, projVars, modelVars>>

\* recover_files is called (recovery.py:93-111).
RecoverFilesStart ==
    /\ rec_pc = "idle"
    /\ rec_pc' = "recovering"
    /\ results' = <<>>
    /\ UNCHANGED <<clock, create_backups, fs, fs_start, file_records, target_dir,
                   preserve_structure, force, io_log, confirm_log, preview,
                   scanVars, projVars, modelVars>>

\* The filesystem calls of one recover_file, marked with the position of its
\* record in the batch.
Tagged(io, call) ==
    [k \in 1..Len(io) |-> [op |-> io[k].op, path |-> io[k].path, ok |-> io[k].ok,
                           call |-> call]]

\* One iteration of "for file_record in file_records" (recovery.py:113-129).
RecoverNextFile ==
    /\ rec_pc = "recovering"
    /\ Len(results) < Len(file_records)
    /\ \E answer \in BOOLEAN, fault \in Faults :
         LET call        == Len(results) + 1
             file_record == file_records[call]
         IN  \E out \in {RecoverFile(fs, create_backups, file_record,
                                     TargetPath(file_record, target_dir,
                                                preserve_structure),
                                     force, answer, fault)} :
             /\ fs' = out.fs
             /\ results' = Append(results, out.result)
             /\ io_log' = io_log \o Tagged(out.io, call)
             /\ confirm_log' = IF out.asked
                               THEN Append(confirm_log,
                                           [call |-> call, answer |-> answer])
                               ELSE confirm_log
    /\ UNCHANGED <<clock, create_backups, fs_start, file_records, target_dir,
                   preserve_structure, force, rec_pc, preview, scanVars,
                   projVars, modelVars>>

\* return results (recovery.py:131).
RecoverFilesReturn ==
    /\ rec_pc = "recovering"
    /\ Len(results) = Len(file_records)
    /\ rec_pc' = "returned"
    /\ UNCHANGED <<clock, create_backups, fs, fs_start, file_records, target_dir,
                   preserve_structure, force, results, io_log, confirm_log, preview,
                   scanVars, projVars, modelVars>>

Next == PreviewRecovery \/ RecoverFilesStart \/ RecoverNextFile \/ RecoverFilesReturn

Spec == Init /\ [][Next]_vars

(***************************************************************************)
(* Properties of the recovery engine.                                      *)
(***************************************************************************)
\* This step is one call of recover_file; LastResult' is what it returned.
RecoverStep == Len(results') = Len(results) + 1
LastResult  == results[Len(results)]
\* The filesystem calls and the Confirm.ask of this step.
NewIo == SubSeq(io_log', Len(io_log) + 1, Len(io_log'))
DeclinedStep ==
    /\ Len(confirm_log') = Len(confirm_log) + 1
    /\ ~confirm_log'[Len(confirm_log')].answer

\* target + ".backup"
BackupOf(path) == [path EXCEPT ![Len(path)] = @ \o ".backup"]

\* The content of the regular file at path, read through f.
HasContent(f, path, content) ==
    /\ Locate(f, path) # Unresolved
    /\ IsFile(f, Locate(f, path))
    /\ f.files[Locate(f, path)] = content

\* C3: recovery is non-destructive without opt-in: when recover_file runs
\* with force = false and backups enabled on a target that exists, and the
\* overwrite goes ahead, then afterwards target + ".backup" holds the content
\* the target had before the call and the target holds the record's content.
C3_BackupKeepsOriginal ==
    [][ (/\ RecoverStep
         /\ ~force /\ create_backups
         /\ Exists(fs, LastResult'.target_path)
         /\ LastResult'.success)
        => /\ HasContent(fs', BackupOf(LastResult'.target_path),
                         fs.files[Locate(fs, LastResult'.target_path)])
           /\ HasContent(fs', LastResult'.target_path,
                         LastResult'.file_record.content.chars) ]_vars

C3_Witness ==
    \E i \in 1..Len(results) :
        /\ ~force /\ create_backups
        /\ results[i].was_existing /\ results[i].success /\ results[i].backup_created
        /\ \E k \in 1..Len(confirm_log) :
              confirm_log[k].call = i /\ confirm_log[k].answer
        /\ i = Len(results)
        /\ HasContent(fs, BackupOf(results[i].target_path), OldText2)

\* C4: preview_recovery leaves the filesystem unchanged: for any records,
\* target directory and preserve-structure setting no file or directory is
\* created, modified or deleted.
C4_PreviewChangesNothing ==
    rec_pc = "previewed" => fs = fs_start /\ io_log = <<>>

C4_Witness ==
    /\ rec_pc = "previewed"
    /\ \E i, j \in 1..Len(preview) :
          /\ preview[i].status = "NEW" /\ ~Exists(fs, Parent(preview[i].target_path))
          /\ preview[j].status = "OVERWRITE"

\* C5: recover_files returns exactly one outcome per input record, in input
\* order, and an I/O failure while making the parent directories, copying the
\* backup or writing the content becomes a non-success outcome carrying the
\* error description, without stopping the rest of the batch.
C5_OneOutcomePerRecord ==
    /\ Len(results) <= Len(file_records)
    /\ \A i \in 1..Len(results) : results[i].file_record = file_records[i]
    /\ rec_pc = "returned" => Len(results) = Len(file_records)
    /\ \A k \in 1..Len(io_log) :
          ~io_log[k].ok =>
              /\ io_log[k].call <= Len(results)
              /\ ~results[io_log[k].call].success
              /\ results[io_log[k].call].error_message
                    \notin {NoError, "User cancelled overwrite"}

C5_Witness ==
    /\ rec_pc = "returned"
    /\ Len(results) = 2
    /\ \E k \in 1..Len(io_log) : io_log[k].call = 1 /\ ~io_log[k].ok
    /\ ~results[1].success
    /\ results[2].success

\* C6: when the target exists, force is false and the confirmation is
\* declined, recover_file returns a non-success outcome with the "declined"
\* error, wasExisting = true and backupCreated = false, and writes nothing:
\* the target keeps its content, no backup and no directory is created.
C6_DeclinedWritesNothing ==
    [][ (RecoverStep /\ DeclinedStep)
        => /\ ~force /\ Exists(fs, LastResult'.target_path)
           /\ ~LastResult'.success
           /\ LastResult'.error_message = "User cancelled overwrite"
           /\ LastResult'.was_existing
           /\ ~LastResult'.backup_created
           /\ fs' = fs
           /\ io_log' = io_log ]_vars

C6_Witness ==
    /\ results # <<>>
    /\ LastResult.error_message = "User cancelled overwrite"
    /\ \E k \in 1..Len(confirm_log) :
          confirm_log[k].call = Len(results) /\ ~confirm_log[k].answer
    /\ HasContent(fs, LastResult.target_path, OldText)

\* C7: backup before overwrite: when the target exists and backups are
\* enabled, the copy to target + ".backup" happens before the target is
\* opened for writing, and if that copy fails the outcome is a failure and
\* the existing target is not overwritten.
C7_BackupBeforeOverwrite ==
    [][ (RecoverStep /\ create_backups /\ Exists(fs, LastResult'.target_path))
        => /\ \A k \in 1..Len(NewIo) :
                 NewIo[k].op = "open_w" =>
                     \E j \in 1..(k - 1) : NewIo[j].op = "copy" /\ NewIo[j].ok
           /\ (\E j \in 1..Len(NewIo) : NewIo[j].op = "copy" /\ ~NewIo[j].ok)
                 => /\ ~LastResult'.success
                    /\ LastResult'.error_message # NoError
                    /\ \A k \in 1..Len(NewIo) : NewIo[k].op # "open_w"
                    /\ \A loc \in DOMAIN fs.files :
                          loc = Locate(fs, LastResult'.target_path)
                              => IsFile(fs', loc) /\ fs'.files[loc] = fs.files[loc]
      ]_vars

C7_Witness ==
    /\ results # <<>>
    /\ create_backups
    /\ LastResult.was_existing /\ ~LastResult.success
    /\ \E k \in 1..Len(io_log) :
          io_log[k].call = Len(results) /\ io_log[k].op = "copy" /\ ~io_log[k].ok
    /\ HasContent(fs, LastResult.target_path, OldText)
    /\ HasContent(fs, BackupOf(LastResult.target_path), Truncated)

\* C15: recover_file consults the confirmation provider if and only if the
\* target already exists and force is false; with force = true, or with no
\* file at the target, it never asks.
C15_AsksOnlyForUnforcedOverwrite ==
    [][ RecoverStep =>
          /\ Len(confirm_log') \in {Len(confirm_log), Len(confirm_log) + 1}
          /\ (Len(confirm_log') = Len(confirm_log) + 1)
                <=> (Exists(fs, LastResult'.target_path) /\ ~force) ]_vars

\* A batch without force in which one call met an existing target and asked,
\* and another met none and did not.
C15_Witness ==
    /\ ~force
    /\ \E i, j \in 1..Len(results) :
          /\ results[i].was_existing
          /\ \E k \in 1..Len(confirm_log) : confirm_log[k].call = i
          /\ ~results[j].was_existing
          /\ \A k \in 1..Len(confirm_log) : confirm_log[k].call # j

\* The step recovers /a/b/src/x.py with preserveStructure into /out, where no
\* file is in the way, and no filesystem call fails.
C9_Case ==
    /\ RecoverStep
    /\ LastResult'.file_record.file_path = JPath(PathXPy)
    /\ target_dir = Dir(OutDir) /\ preserve_structure
    /\ ~Exists(fs, LastResult'.target_path)
    /\ \A k \in 1..Len(NewIo) : NewIo[k].ok

C9_Outcome(target) ==
    /\ LastResult'.success
    /\ LastResult'.target_path = target
    /\ HasContent(fs', target, LastResult'.file_record.content.chars)
    /\ ~LastResult'.backup_created

\* C9 as the specification states it: recovering /a/b/src/x.py with
\* preserveStructure = true into /out, with no conflicting file, succeeds
\* with target path /out/src/x.py, the content written there and
\* backupCreated = false.
C9_TargetOutSrc ==
    [][ C9_Case => C9_Outcome(<<"/", "out", "src", "x.py">>) ]_vars

\* C9, amended: recovering /a/b/src/x.py with preserveStructure = true into
\* /out, with no conflicting file, succeeds with target path /out/b/src/x.py
\* (the path is kept from the parent of "src"), the content written there and
\* backupCreated = false.
C9_TargetOutBSrc ==
    [][ C9_Case => C9_Outcome(<<"/", "out", "b", "src", "x.py">>) ]_vars

C9_Witness ==
    /\ results # <<>>
    /\ target_dir = Dir(OutDir) /\ preserve_structure
    /\ LastResult.file_record.file_path = JPath(PathXPy)
    /\ LastResult.success /\ ~LastResult.was_existing /\ ~LastResult.backup_created
    /\ LastResult.target_path = <<"/", "out", "b", "src", "x.py">>
    /\ HasContent(fs, <<"/", "out", "b", "src", "x.py">>, TextHi.chars)

RECURSIVE Collapse(_, _)
Collapse(done, rest) ==
    IF rest = <<>> THEN done
    ELSE IF Head(rest) = ".."
         THEN Collapse(IF Len(done) > 1 THEN SubSeq(done, 1, Len(done) - 1) ELSE done,
                       Tail(rest))
         ELSE Collapse(Append(done, Head(rest)), Tail(rest))

\* The file a path stands for lies below the directory dir.
IsUnder(path, dir) ==
    /\ IsAbsolute(path)
    /\ LET norm == Collapse(<<"/">>, Tail(path))
       IN  Len(norm) > Len(dir) /\ SubSeq(norm, 1, Len(dir)) = dir

\* C17: containment of recovery output: when recover_files is given a target
\* directory (flat or preserve-structure), the target path of every record
\* lies under that directory, also for paths whose root marker is the first
\* segment after the root and for paths with ".." segments.
C17_TargetsContained ==
    target_dir.given =>
        \A n \in 1..Len(results) : IsUnder(results[n].target_path, target_dir.path)

\* C18: original content survives a whole batch: after recover_files with
\* backups enabled and every overwrite forced or confirmed, for every target
\* where a file existed before the batch and that was overwritten,
\* target + ".backup" holds the content the target had before the batch,
\* also when several records resolve to the same target.
C18_BackupHoldsContentBeforeBatch ==
    (/\ rec_pc = "returned"
     /\ create_backups
     /\ \A k \in 1..Len(confirm_log) : confirm_log[k].answer)
    => \A n \in 1..Len(results) :
          LET target == results[n].target_path
              loc    == Locate(fs_start, target)
          IN  (results[n].success /\ loc # Unresolved /\ IsFile(fs_start, loc))
                  => HasContent(fs, BackupOf(target), fs_start.files[loc])

\* C19: preview agrees with recovery: from the same filesystem, for the same
\* records, target directory and preserve-structure setting,
\* preview_recovery computes for each record the target path recover_files
\* uses, and reports it as a fresh write exactly when the record's outcome
\* has was_existing = false.
C19_PreviewAgreesWithRecovery ==
    rec_pc \in {"recovering", "returned"} =>
        \A n \in 1..Len(results) :
            LET line == PreviewLines(fs_start, file_records, target_dir,
                                     preserve_structure)[n]
            IN  /\ line.target_path = results[n].target_path
                /\ (line.status = "NEW") <=> ~results[n].was_existing

====
